---- MODULE Spec2Model ----
(***************************************************************************)
(* The backtest simulator and performance report of the strategy script    *)
(* (src/check_env.py, "superp trading strategy.py" section).               *)
(*                                                                         *)
(* Numbers.  Prices, cash and P&L are Python floats in the source; here    *)
(* they are exact integers.  Close prices are drawn from multiples of 100  *)
(* so that price * 0.99 is an integer too, and risk_per_trade is the       *)
(* fraction num/den kept as the pair <<num, den>>.  None is the empty      *)
(* tuple and a set value v is the one-element tuple <<v>>.                 *)
(*                                                                         *)
(* Indices.  i is Python's 0-based loop index; df.iloc[k] is df[k + 1].    *)
(***************************************************************************)
EXTENDS Integers, Sequences, FiniteSets

\* ------------------------------------------------------------------ bounds
MaxBars == 3
MaxObvBars == 3
MaxPad == 10
MaxTail == 2

\* ------------------------------------------------------- program constants
LookbackBars == 10
TpMultiple == 2
RsiLow == 40
RsiHigh == 55

None == <<>>
Some(v) == <<v>>
Val(o) == o[1]

\* ------------------------------------------------------------------ inputs
\* One row of the caller's frame: the columns backtest() reads, and na, true
\* when some column of the row is NaN.
Bar(l, h, c, e50, r, o) ==
    [na |-> FALSE, Low |-> l, High |-> h, Close |-> c,
     EMA50 |-> e50, EMA200 |-> 100, RSI |-> r, OBV |-> o]

RawBars ==
    { Bar(95, 100, 100, 100, 50, 0),   \* quiet, trend undecided
      Bar(199, 202, 200, 100, 50, 0),
      Bar(97, 110, 100, 100, 50, 0),   \* high reaches 110
      Bar(95, 110, 100, 100, 50, 0),   \* low 95 and high 110 on one bar
      Bar(97, 100, 100, 99, 50, 0),    \* EMA50 < EMA200
      Bar(199, 202, 200, 99, 50, 0),
      Bar(97, 100, 100, 101, 40, 1),   \* EMA50 > EMA200, RSI in band
      Bar(95, 110, 100, 101, 40, 1),
      Bar(97, 110, 100, 101, 40, 1),
      Bar(199, 202, 200, 101, 40, 1),
      Bar(199, 200, 0, 101, 40, 1),    \* close of 0
      Bar(97, 100, 100, 101, 55, 2),
      Bar(199, 202, 200, 101, 55, 2),
      Bar(90, 100, 100, 101, 55, 2),   \* low of 90
      Bar(97, 100, 100, 101, 56, 1),   \* RSI above the band
      Bar(97, 100, 100, 101, 39, 1),   \* RSI below the band
      [Bar(95, 100, 100, 100, 50, 0) EXCEPT !.na = TRUE] }

Capitals == {100, 100000}
Risks == {<<1, 100>>, <<1, 50>>}

RawFrames == UNION { [1..n -> RawBars] : n \in 0..MaxBars }

\* The frame's index: row k of the caller's frame carries the label k.
WithIndex(raw) ==
    [k \in 1..Len(raw) |->
        [Date |-> k, Low |-> raw[k].Low, High |-> raw[k].High,
         Close |-> raw[k].Close, EMA50 |-> raw[k].EMA50,
         EMA200 |-> raw[k].EMA200, RSI |-> raw[k].RSI, OBV |-> raw[k].OBV,
         na |-> raw[k].na]]

NotNa(row) == ~row.na

\* df.copy().dropna(): rows with a NaN are removed, labels are kept.
DropNa(frame) == SelectSeq(frame, NotNa)

\* ------------------------------------------------------------------- state
VARIABLES
    df,               \* the frame after dropna()
    initial_capital,
    risk_per_trade,   \* <<num, den>>
    pc,               \* "entry", "manage", "close", "done", "reported"
    i,                \* loop index (0-based)
    cash,
    position,
    entry_price,
    stop_price,
    trades,           \* the ledger, a sequence of trade records
    entries,          \* number of entry events so far
    ret,              \* None, or Some of the returned pair
    stats,            \* None, or Some of the statistics mapping
    ohlcv,            \* the frame given to obv() and to calculate_obv()
    obv_vals,         \* obv(): the list obv_vals
    obv_i,            \* obv(): loop index (0-based)
    obv_ret,          \* obv(): None, or Some of the returned series
    app_obv,          \* calculate_obv(): the list obv
    app_i,            \* calculate_obv(): loop index (0-based)
    app_col           \* calculate_obv(): None, or Some of the column df['obv']

obv_vars == <<ohlcv, obv_vals, obv_i, obv_ret, app_obv, app_i, app_col>>

vars == <<df, initial_capital, risk_per_trade, pc, i, cash, position,
          entry_price, stop_price, trades, entries, ret, stats, obv_vars>>

\* ----------------------------------------------------------------- helpers
iloc(k) == df[k + 1]

Max(a, b) == IF a >= b THEN a ELSE b

RECURSIVE MinOver(_, _, _)
MinOver(f, lo, hi) ==
    IF lo = hi THEN f[lo]
    ELSE LET m == MinOver(f, lo + 1, hi)
         IN  IF f[lo] <= m THEN f[lo] ELSE m

\* Variant: the low is taken over all the rows before row k.
RecentLowAllRows(k) ==
    MinOver([j \in 1..Len(df) |-> df[j].Low], 1, k)

\* df['Low'].iloc[max(0, i-10):i].min()
RecentLow(k) ==
    MinOver([j \in 1..Len(df) |-> df[j].Low], Max(0, k - LookbackBars) + 1, k)

\* int(): truncation towards zero, for a positive divisor
Trunc(a, b) == IF a >= 0 THEN a \div b ELSE -((-a) \div b)

TrendUp(row) == row.EMA50 > row.EMA200
RsiOk(row) == RsiLow <= row.RSI /\ row.RSI <= RsiHigh

\* Variant: an unchanged OBV passes the volume filter.
ObvUpOrEqual(row, prev) == row.OBV >= prev.OBV

ObvUp(row, prev) == row.OBV > prev.OBV

EntrySignal(row, prev) == TrendUp(row) /\ RsiOk(row) /\ ObvUp(row, prev)

\* Variant: the entry test forgets that a position may be open.
EntryConditionAnyPosition(pos, row, prev) == EntrySignal(row, prev)

\* if position == 0 and trend_up and rsi_ok and obv_up
EntryCondition(pos, row, prev) == pos = 0 /\ EntrySignal(row, prev)

\* price * 0.99
Pct99(price) == (price * 99) \div 100

StopFor(recent_low, price) ==
    IF recent_low < price THEN recent_low ELSE Pct99(price)

\* Variant: the quantity is rounded up.
SizeQtyRoundUp(c, risk, risk_per_share) ==
    Trunc(c * risk[1] + risk[2] * risk_per_share - 1, risk[2] * risk_per_share)

\* int(risk_amount / risk_per_share) with risk_amount = cash * risk_per_trade
SizeQty(c, risk, risk_per_share) ==
    Trunc(c * risk[1], risk[2] * risk_per_share)

\* Variant: a computed quantity of zero is accepted.
SizingOkZeroQty(c, risk, risk_per_share) ==
    /\ risk_per_share > 0
    /\ SizeQty(c, risk, risk_per_share) >= 0

SizingOk(c, risk, risk_per_share) ==
    /\ risk_per_share > 0
    /\ SizeQty(c, risk, risk_per_share) > 0

\* Variant: the record is stamped with the label before the entry bar's.
OpenRecordPrevLabel(row, price, qty, stop) ==
    [EntryTime |-> row.Date - 1, Side |-> "LONG", EntryPrice |-> price,
     Qty |-> qty, StopPrice |-> stop, ExitTime |-> None, ExitPrice |-> None,
     PnL |-> None, ExitReason |-> None]

OpenRecord(row, price, qty, stop) ==
    [EntryTime |-> row.Date, Side |-> "LONG", EntryPrice |-> price,
     Qty |-> qty, StopPrice |-> stop, ExitTime |-> None, ExitPrice |-> None,
     PnL |-> None, ExitReason |-> None]

\* The exit reasons as the ledger spells them.
STOP == "STOP"
TAKE_PROFIT == "TP"
TREND_FLIP == "TREND_FLIP"
END_OF_DATA == "EOD"

TakeProfit(entry, stop) == entry + TpMultiple * (entry - stop)

\* Variant: take-profit is tested before the stop.
ExitDecisionTpFirst(row, entry, stop) ==
    IF row.High >= TakeProfit(entry, stop)
    THEN [exit |-> TRUE, reason |-> TAKE_PROFIT,
          exit_price |-> TakeProfit(entry, stop)]
    ELSE IF row.Low <= stop
    THEN [exit |-> TRUE, reason |-> STOP, exit_price |-> stop]
    ELSE IF row.EMA50 < row.EMA200
    THEN [exit |-> TRUE, reason |-> TREND_FLIP, exit_price |-> row.Close]
    ELSE [exit |-> FALSE, reason |-> "", exit_price |-> 0]

\* Variant: a stopped position is sold at the bar's low.
ExitDecisionStopAtLow(row, entry, stop) ==
    IF row.Low <= stop
    THEN [exit |-> TRUE, reason |-> STOP, exit_price |-> row.Low]
    ELSE IF row.High >= TakeProfit(entry, stop)
    THEN [exit |-> TRUE, reason |-> TAKE_PROFIT,
          exit_price |-> TakeProfit(entry, stop)]
    ELSE IF row.EMA50 < row.EMA200
    THEN [exit |-> TRUE, reason |-> TREND_FLIP, exit_price |-> row.Close]
    ELSE [exit |-> FALSE, reason |-> "", exit_price |-> 0]

ExitDecision(row, entry, stop) ==
    IF row.Low <= stop
    THEN [exit |-> TRUE, reason |-> STOP, exit_price |-> stop]
    ELSE IF row.High >= TakeProfit(entry, stop)
    THEN [exit |-> TRUE, reason |-> TAKE_PROFIT,
          exit_price |-> TakeProfit(entry, stop)]
    ELSE IF row.EMA50 < row.EMA200
    THEN [exit |-> TRUE, reason |-> TREND_FLIP, exit_price |-> row.Close]
    ELSE [exit |-> FALSE, reason |-> "", exit_price |-> 0]

Pnl(exit_price, entry, qty) == (exit_price - entry) * qty

\* Variant: the credit forgets the quantity.
CreditOneShare(c, qty, exit_price) == c + exit_price

Credit(c, qty, exit_price) == c + qty * exit_price

\* Variant: the exit is written to the first record, trades[0].
UpdateFirst(ledger, t, exit_price, pnl, reason) ==
    [ledger EXCEPT ![1] =
        [@ EXCEPT !.ExitTime = Some(t), !.ExitPrice = Some(exit_price),
                  !.PnL = Some(pnl), !.ExitReason = Some(reason)]]

\* trades[-1].update({...})
UpdateLast(ledger, t, exit_price, pnl, reason) ==
    [ledger EXCEPT ![Len(ledger)] =
        [@ EXCEPT !.ExitTime = Some(t), !.ExitPrice = Some(exit_price),
                  !.PnL = Some(pnl), !.ExitReason = Some(reason)]]

\* ------------------------------------------------------ performance report
\* A quotient a / b is kept as the pair <<a, b>>; the literal 0 is <<0, 1>>.
Rat(a, b) == <<a, b>>

IsWin(r) == Val(r.PnL) > 0
IsLoss(r) == Val(r.PnL) <= 0

RECURSIVE SumPnl(_)
SumPnl(s) == IF s = <<>> THEN 0 ELSE Val(Head(s).PnL) + SumPnl(Tail(s))

\* Series.mean() of the P&L column
MeanPnl(s) == Rat(SumPnl(s), Len(s))

BaseStats(initial, final, n) ==
    [InitialCapital |-> initial, FinalCapital |-> final,
     TotalReturn |-> Rat(final - initial, initial),
     TotalPnL |-> final - initial, NumTrades |-> n]

TradeStats(ledger) ==
    LET wins == SelectSeq(ledger, IsWin)
        losses == SelectSeq(ledger, IsLoss)
    IN  [WinRate |-> Rat(Len(wins), Len(ledger)),
         AvgWin |-> IF wins # <<>> THEN MeanPnl(wins) ELSE Rat(0, 1),
         AvgLoss |-> IF losses # <<>> THEN MeanPnl(losses) ELSE Rat(0, 1)]

\* The mapping k -> v of both records (their key sets are disjoint).
Merge(a, b) ==
    [k \in DOMAIN a \cup DOMAIN b |-> IF k \in DOMAIN a THEN a[k] ELSE b[k]]

PerformanceReport(ledger, initial, final) ==
    IF ledger # <<>>
    THEN Merge(BaseStats(initial, final, Len(ledger)), TradeStats(ledger))
    ELSE BaseStats(initial, final, Len(ledger))

\* Variant: the final price is read from the first row.
FinalPriceFirstRow == df[1].Close

\* df['Close'].iloc[-1]
FinalPrice == df[Len(df)].Close

LoopPc(k) == IF k < Len(df) THEN "entry" ELSE "close"

\* No OBV computation is under way.
ObvIdle ==
    /\ ohlcv = <<>>
    /\ obv_vals = <<>>
    /\ obv_i = 0
    /\ obv_ret = None
    /\ app_obv = <<>>
    /\ app_i = 0
    /\ app_col = None

\* -------------------------------------------------------------------- Init
Init ==
    /\ \E raw \in RawFrames : df = DropNa(WithIndex(raw))
    /\ initial_capital \in Capitals
    /\ risk_per_trade \in Risks
    /\ cash = initial_capital
    /\ position = 0
    /\ entry_price = None
    /\ stop_price = None
    /\ trades = <<>>
    /\ entries = 0
    /\ i = 1
    /\ pc = LoopPc(1)
    /\ ret = None
    /\ stats = None
    /\ ObvIdle

\* ----------------------------------------------------------------- actions
\* Entry conditions of bar i: the signal holds while flat and sizing succeeds.
EnterLong ==
    /\ pc = "entry"
    /\ LET row == iloc(i)
           prev == iloc(i - 1)
           price == row.Close
           stop == StopFor(RecentLow(i), price)
           risk_per_share == price - stop
           qty == SizeQty(cash, risk_per_trade, risk_per_share)
       IN  /\ EntryCondition(position, row, prev)
           /\ SizingOk(cash, risk_per_trade, risk_per_share)
           /\ position' = qty
           /\ entry_price' = Some(price)
           /\ stop_price' = Some(stop)
           /\ cash' = cash - qty * price
           /\ trades' = Append(trades, OpenRecord(row, price, qty, stop))
           /\ entries' = entries + 1
    /\ pc' = "manage"
    /\ UNCHANGED obv_vars
    /\ UNCHANGED <<df, initial_capital, risk_per_trade, i, ret, stats>>

\* Bar i opens nothing: a position is open, a filter fails, or sizing is
\* degenerate.
NoEntry ==
    /\ pc = "entry"
    /\ LET row == iloc(i)
           prev == iloc(i - 1)
           price == row.Close
           stop == StopFor(RecentLow(i), price)
       IN  ~(/\ EntryCondition(position, row, prev)
             /\ SizingOk(cash, risk_per_trade, price - stop))
    /\ pc' = "manage"
    /\ UNCHANGED obv_vars
    /\ UNCHANGED <<df, initial_capital, risk_per_trade, i, cash, position,
                   entry_price, stop_price, trades, entries, ret, stats>>

\* Manage the open position on bar i, then advance the loop.
ExitPosition ==
    /\ pc = "manage"
    /\ position > 0
    /\ LET row == iloc(i)
           d == ExitDecision(row, Val(entry_price), Val(stop_price))
       IN  /\ d.exit
           /\ cash' = Credit(cash, position, d.exit_price)
           /\ trades' = UpdateLast(trades, row.Date, d.exit_price,
                                   Pnl(d.exit_price, Val(entry_price), position),
                                   d.reason)
    /\ position' = 0
    /\ entry_price' = None
    /\ stop_price' = None
    /\ i' = i + 1
    /\ pc' = LoopPc(i + 1)
    /\ UNCHANGED obv_vars
    /\ UNCHANGED <<df, initial_capital, risk_per_trade, entries, ret, stats>>

HoldOrFlat ==
    /\ pc = "manage"
    /\ \/ position = 0
       \/ /\ position > 0
          /\ ~ExitDecision(iloc(i), Val(entry_price), Val(stop_price)).exit
    /\ i' = i + 1
    /\ pc' = LoopPc(i + 1)
    /\ UNCHANGED obv_vars
    /\ UNCHANGED <<df, initial_capital, risk_per_trade, cash, position,
                   entry_price, stop_price, trades, entries, ret, stats>>

\* Variant: the position left open by the last bar is not closed.
CloseAtEndNoForcedExit ==
    /\ pc = "close"
    /\ ret' = Some([trades |-> trades, final_capital |-> cash])
    /\ pc' = "done"
    /\ UNCHANGED obv_vars
    /\ UNCHANGED <<df, initial_capital, risk_per_trade, i, cash, position,
                   entry_price, stop_price, trades, entries, stats>>

\* "Close at end" and the return of (trades_df, final_capital).
CloseAtEnd ==
    /\ pc = "close"
    /\ IF position > 0
       THEN LET final_price == FinalPrice
            IN  /\ cash' = Credit(cash, position, final_price)
                /\ trades' = UpdateLast(trades, df[Len(df)].Date, final_price,
                                        Pnl(final_price, Val(entry_price), position),
                                        END_OF_DATA)
       ELSE UNCHANGED <<cash, trades>>
    /\ ret' = Some([trades |-> trades', final_capital |-> cash'])
    /\ pc' = "done"
    /\ UNCHANGED obv_vars
    /\ UNCHANGED <<df, initial_capital, risk_per_trade, i, position,
                   entry_price, stop_price, entries, stats>>

\* The main script: stats = performance_report(trades_df, initial, final).
Report ==
    /\ pc = "done"
    /\ stats' = Some(PerformanceReport(Val(ret).trades, initial_capital,
                                       Val(ret).final_capital))
    /\ pc' = "reported"
    /\ UNCHANGED obv_vars
    /\ UNCHANGED <<df, initial_capital, risk_per_trade, i, cash, position,
                   entry_price, stop_price, trades, entries, ret>>

Next ==
    EnterLong \/ NoEntry \/ ExitPosition \/ HoldOrFlat \/ CloseAtEnd \/ Report

Spec == Init /\ [][Next]_vars

\* ------------------------------------------------------------- long frames
\* Frames longer than the lookback window: a first row, a run of quiet rows
\* with low 199, then a tail of arbitrary rows.
LongFirstBars == {Bar(95, 100, 100, 100, 50, 0), Bar(199, 202, 200, 100, 50, 0)}
PadBar == Bar(199, 202, 200, 100, 50, 0)
Pad(n) == [k \in 1..n |-> PadBar]
Tails == UNION { [1..n -> RawBars] : n \in 1..MaxTail }

LongFrames ==
    { <<first>> \o Pad(n) \o tail :
        first \in LongFirstBars, n \in (LookbackBars - 1)..MaxPad,
        tail \in Tails }

InitLong ==
    /\ \E raw \in LongFrames : df = DropNa(WithIndex(raw))
    /\ initial_capital \in Capitals
    /\ risk_per_trade \in Risks
    /\ cash = initial_capital
    /\ position = 0
    /\ entry_price = None
    /\ stop_price = None
    /\ trades = <<>>
    /\ entries = 0
    /\ i = 1
    /\ pc = LoopPc(1)
    /\ ret = None
    /\ stats = None
    /\ ObvIdle

SpecLong == InitLong /\ [][Next]_vars

\* ------------------------------------------------------- on-balance volume
\* The rows given to the two OBV functions: close and volume.
ObvCloses == {95, 100, 105}
ObvVolumes == {10, 15, 20}
ObvBars == [Close : ObvCloses, Volume : ObvVolumes]
ObvFrames == UNION { [1..n -> ObvBars] : n \in 1..MaxObvBars }

\* Variant: a tie of the closes counts as a rise.
ObvNextTieUp(last, close, prev_close, volume) ==
    IF close >= prev_close THEN last + volume
    ELSE IF close < prev_close THEN last - volume
    ELSE last

\* obv(): the value appended for row i, after obv_vals[-1] = last
ObvNext(last, close, prev_close, volume) ==
    IF close > prev_close THEN last + volume
    ELSE IF close < prev_close THEN last - volume
    ELSE last

\* calculate_obv(): the value appended for row i, after obv[-1] = last
AppObvNext(last, close, prev_close, volume) ==
    IF close > prev_close THEN last + volume
    ELSE IF close < prev_close THEN last - volume
    ELSE last

\* Both functions are called on a non-empty frame, each after its "[0]".
InitObv ==
    /\ ohlcv \in ObvFrames
    /\ obv_vals = <<0>>
    /\ obv_i = 1
    /\ obv_ret = None
    /\ app_obv = <<0>>
    /\ app_i = 1
    /\ app_col = None
    /\ df = <<>>
    /\ initial_capital \in {100000}
    /\ risk_per_trade \in {<<1, 100>>}
    /\ cash = initial_capital
    /\ position = 0
    /\ entry_price = None
    /\ stop_price = None
    /\ trades = <<>>
    /\ entries = 0
    /\ i = 1
    /\ pc = "idle"
    /\ ret = None
    /\ stats = None

backtest_vars ==
    <<df, initial_capital, risk_per_trade, pc, i, cash, position,
      entry_price, stop_price, trades, entries, ret, stats>>

\* One iteration of obv()'s loop.
ObvStep ==
    /\ pc = "idle"
    /\ obv_ret = None
    /\ obv_i < Len(ohlcv)
    /\ obv_vals' = Append(obv_vals,
                          ObvNext(obv_vals[Len(obv_vals)],
                                  ohlcv[obv_i + 1].Close, ohlcv[obv_i].Close,
                                  ohlcv[obv_i + 1].Volume))
    /\ obv_i' = obv_i + 1
    /\ UNCHANGED <<ohlcv, obv_ret, app_obv, app_i, app_col>>
    /\ UNCHANGED backtest_vars

\* return pd.Series(obv_vals, index=df.index)
ObvReturn ==
    /\ pc = "idle"
    /\ obv_ret = None
    /\ obv_i >= Len(ohlcv)
    /\ obv_ret' = Some(obv_vals)
    /\ UNCHANGED <<ohlcv, obv_vals, obv_i, app_obv, app_i, app_col>>
    /\ UNCHANGED backtest_vars

\* One iteration of calculate_obv()'s loop.
AppObvStep ==
    /\ pc = "idle"
    /\ app_col = None
    /\ app_i < Len(ohlcv)
    /\ app_obv' = Append(app_obv,
                         AppObvNext(app_obv[Len(app_obv)],
                                    ohlcv[app_i + 1].Close, ohlcv[app_i].Close,
                                    ohlcv[app_i + 1].Volume))
    /\ app_i' = app_i + 1
    /\ UNCHANGED <<ohlcv, obv_vals, obv_i, obv_ret, app_col>>
    /\ UNCHANGED backtest_vars

\* df['obv'] = obv; return df
AppObvReturn ==
    /\ pc = "idle"
    /\ app_col = None
    /\ app_i >= Len(ohlcv)
    /\ app_col' = Some(app_obv)
    /\ UNCHANGED <<ohlcv, obv_vals, obv_i, obv_ret, app_obv, app_i>>
    /\ UNCHANGED backtest_vars

NextObv == ObvStep \/ ObvReturn \/ AppObvStep \/ AppObvReturn

SpecObv == InitObv /\ [][NextObv]_vars

\* ------------------------------------------------------------------ claims
IsOpen(r) == r.ExitTime = None
IsClosed(r) == r.ExitTime # None

OpenRecords == {k \in 1..Len(trades) : IsOpen(trades[k])}
ClosedRecords == {k \in 1..Len(trades) : IsClosed(trades[k])}

InBacktest == pc \in {"entry", "manage", "close"}
Returned == pc \in {"done", "reported"}

\* C1 (state part): until backtest() returns, an unfinalized record can only
\* be the last one of the ledger, and there is one exactly when position > 0.
C1_State ==
    InBacktest =>
        /\ OpenRecords \subseteq {Len(trades)}
        /\ (position > 0) <=> (OpenRecords # {})

\* C1 (step part): a record is appended only from a state with no open
\* position and no unfinalized record.
C1_Step ==
    Len(trades') > Len(trades) => (position = 0 /\ OpenRecords = {})

\* C1: at most one open position exists at any time; an entry fires only
\* when flat, and at most one record is unfinalized: the last one, present
\* exactly when position > 0.
C1_OneOpenPosition == []C1_State /\ [][C1_Step]_vars

\* A second trade is open after a first one was closed.
C1_Witness ==
    /\ pc = "close"
    /\ Len(trades) = 2
    /\ IsClosed(trades[1])
    /\ IsOpen(trades[2])
    /\ position > 0

RECURSIVE SumOver(_, _)
SumOver(f, S) ==
    IF S = {} THEN 0
    ELSE LET k == CHOOSE x \in S : TRUE
         IN  f[k] + SumOver(f, S \ {k})

RealizedPnl ==
    SumOver([k \in 1..Len(trades) |->
                IF IsClosed(trades[k]) THEN Val(trades[k].PnL) ELSE 0],
            1..Len(trades))

OpenCost ==
    SumOver([k \in 1..Len(trades) |-> trades[k].Qty * trades[k].EntryPrice],
            OpenRecords)

\* C2: the final cash balance returned by backtest() is the initial capital
\* plus the sum of the realized P&L of all trade records; on the way, cash is
\* the initial capital plus the realized P&L minus the cost of the open
\* position, and each P&L is (exit price - entry price) x qty.
C2_RoundTrip ==
    /\ cash = initial_capital + RealizedPnl - OpenCost
    /\ \A k \in ClosedRecords :
          Val(trades[k].PnL) =
             (Val(trades[k].ExitPrice) - trades[k].EntryPrice) * trades[k].Qty
    /\ Returned =>
          Val(ret).final_capital =
             initial_capital + SumPnl(Val(ret).trades)

\* Two trades were closed with a non-zero total.
C2_Witness ==
    /\ Returned
    /\ Len(Val(ret).trades) = 2
    /\ Val(Val(ret).trades[1].PnL) # 0
    /\ SumPnl(Val(ret).trades) # 0

\* C3: the cash balance is never negative, after every entry debit and after
\* every exit credit.
C3_CashNeverNegative == cash >= 0

Finalized(r) ==
    /\ r.ExitTime # None
    /\ r.ExitPrice # None
    /\ r.PnL # None
    /\ r.ExitReason # None

\* C4: when backtest() returns, the number of trade records equals the
\* number of entry events and every record is finalized, a position still
\* open after the last bar having been force-closed.
C4_EveryEntryClosed ==
    Returned =>
        /\ Len(Val(ret).trades) = entries
        /\ \A k \in 1..Len(Val(ret).trades) : Finalized(Val(ret).trades[k])

\* Two entries, the second one still open after the last bar, both closed in
\* the returned ledger.
C4_Witness ==
    /\ Returned
    /\ entries = 2
    /\ position > 0
    /\ Len(Val(ret).trades) = 2

LastRow == df[Len(df)]

EodRecords ==
    {k \in 1..Len(trades) : trades[k].ExitReason = Some(END_OF_DATA)}

\* C5 (state part): no record carries END_OF_DATA before the end; after the
\* return there is one, the last record, exactly when the last bar left a
\* position open, and it carries the last bar's timestamp and close.
C5_State ==
    /\ InBacktest => EodRecords = {}
    /\ Returned =>
          IF position > 0
          THEN /\ EodRecords = {Len(trades)}
               /\ LET r == trades[Len(trades)]
                  IN  /\ r.ExitTime = Some(LastRow.Date)
                      /\ r.ExitPrice = Some(LastRow.Close)
                      /\ r.PnL = Some((LastRow.Close - r.EntryPrice) * r.Qty)
          ELSE EodRecords = {}

\* C5 (step part): the forced close credits qty x last close and rewrites
\* the last record only; when flat, the end leaves cash and ledger alone.
C5_Step ==
    pc = "close" =>
        IF position > 0
        THEN /\ cash' = cash + position * LastRow.Close
             /\ Len(trades') = Len(trades)
             /\ \A k \in 1..(Len(trades) - 1) : trades'[k] = trades[k]
        ELSE cash' = cash /\ trades' = trades

\* C5: a position still open after the last bar is force-closed, once, with
\* reason END_OF_DATA at the last bar's timestamp and close, credited and
\* priced as a normal exit; a flat end leaves no END_OF_DATA record.
C5_ForcedClose == []C5_State /\ [][C5_Step]_vars

\* A forced close, one bar after the entry, at a close that differs from the
\* entry price.
C5_Witness ==
    /\ Returned
    /\ position > 0
    /\ trades[Len(trades)].ExitReason = Some(END_OF_DATA)
    /\ Val(trades[Len(trades)].ExitTime) > trades[Len(trades)].EntryTime
    /\ Val(trades[Len(trades)].PnL) # 0

ExitedWith(reason) ==
    /\ position' = 0
    /\ Len(trades') = Len(trades)
    /\ trades'[Len(trades)].ExitReason = Some(reason)
    /\ \A k \in 1..(Len(trades) - 1) : trades'[k] = trades[k]

NumClosed(ledger) == Cardinality({k \in 1..Len(ledger) : IsClosed(ledger[k])})

\* C6: while long, a bar performs at most one exit, chosen in the order
\* STOP (low <= stop), TAKE_PROFIT (high >= entry + 2 x (entry - stop)),
\* TREND_FLIP (EMA50 < EMA200), else the position stays open; the entry half
\* of a bar closes nothing.
C6_Step ==
    /\ pc = "entry" => NumClosed(trades') = NumClosed(trades)
    /\ pc = "manage" =>
          /\ NumClosed(trades') <= NumClosed(trades) + 1
          /\ IF position > 0
             THEN LET row == df[i + 1]
                      e == Val(entry_price)
                      s == Val(stop_price)
                  IN  IF row.Low <= s THEN ExitedWith(STOP)
                      ELSE IF row.High >= e + 2 * (e - s)
                           THEN ExitedWith(TAKE_PROFIT)
                      ELSE IF row.EMA50 < row.EMA200
                           THEN ExitedWith(TREND_FLIP)
                      ELSE position' = position /\ trades' = trades
             ELSE trades' = trades

C6_ExitPriority == [][C6_Step]_vars

RowAt(t) == df[CHOOSE k \in 1..Len(df) : df[k].Date = t]

\* A trade stopped on a bar whose high also reached its take-profit price.
C6_Witness ==
    \E k \in 1..Len(trades) :
        /\ trades[k].ExitReason = Some(STOP)
        /\ RowAt(Val(trades[k].ExitTime)).Low <= trades[k].StopPrice
        /\ RowAt(Val(trades[k].ExitTime)).High >=
              trades[k].EntryPrice
                 + 2 * (trades[k].EntryPrice - trades[k].StopPrice)

\* C7: every finalized record has a reason among STOP, TAKE_PROFIT,
\* TREND_FLIP, END_OF_DATA and the exit price that reason fixes: the stop
\* price for STOP, entry + 2 x (entry - stop) for TAKE_PROFIT, the close of
\* the exit bar for TREND_FLIP and END_OF_DATA, with the matching P&L.
C7_ExitPrices ==
    \A k \in ClosedRecords :
        LET r == trades[k]
            risk == r.EntryPrice - r.StopPrice
        IN  /\ r.ExitReason \in
                  {Some(STOP), Some(TAKE_PROFIT), Some(TREND_FLIP),
                   Some(END_OF_DATA)}
            /\ r.ExitReason = Some(STOP) =>
                  /\ r.ExitPrice = Some(r.StopPrice)
                  /\ r.PnL = Some(-(risk * r.Qty))
            /\ r.ExitReason = Some(TAKE_PROFIT) =>
                  /\ r.ExitPrice = Some(r.EntryPrice + 2 * risk)
                  /\ r.PnL = Some(2 * risk * r.Qty)
            /\ r.ExitReason \in {Some(TREND_FLIP), Some(END_OF_DATA)} =>
                  r.ExitPrice = Some(RowAt(Val(r.ExitTime)).Close)

\* The ledger holds the trade entered at 100 with stop 95 and quantity 200,
\* sold at 110 for 2000, and one stopped on a bar whose low is under the stop.
C7_Witness ==
    /\ \E k \in 1..Len(trades) :
          /\ trades[k].EntryPrice = 100
          /\ trades[k].StopPrice = 95
          /\ trades[k].Qty = 200
          /\ trades[k].ExitReason = Some(TAKE_PROFIT)
          /\ trades[k].ExitPrice = Some(110)
          /\ trades[k].PnL = Some(2000)
    /\ \E k \in 1..Len(trades) :
          /\ trades[k].ExitReason = Some(STOP)
          /\ RowAt(Val(trades[k].ExitTime)).Low < trades[k].StopPrice
          /\ trades[k].ExitPrice = Some(trades[k].StopPrice)

\* C8: performance_report() reports a win rate in [0,1], and for an empty
\* trade sequence reports win rate, average win and average loss as 0, the
\* three entries being present in the returned statistics.
C8_ReportDefined ==
    pc = "reported" =>
        LET s == Val(stats)
        IN  /\ {"WinRate", "AvgWin", "AvgLoss"} \subseteq DOMAIN s
            /\ s.WinRate[2] > 0
            /\ 0 <= s.WinRate[1]
            /\ s.WinRate[1] <= s.WinRate[2]
            /\ Val(ret).trades = <<>> =>
                  /\ s.WinRate[1] = 0
                  /\ s.AvgWin[1] = 0
                  /\ s.AvgLoss[1] = 0

\* What a completed run that opened no trade returns.
NoTradesResult == [trades |-> <<>>, final_capital |-> initial_capital]

\* C9: given fewer than two bars after dropna(), backtest() signals an
\* insufficient-data condition, distinguishable from the result of a
\* completed run that produced no trades.
C9_InsufficientData ==
    (Returned /\ Len(df) <= 1) => Val(ret) # NoTradesResult

\* The sizing of bar k as the entry rule states it, from the frame alone.
SignalAt(k) ==
    /\ df[k + 1].EMA50 > df[k + 1].EMA200
    /\ 40 <= df[k + 1].RSI
    /\ df[k + 1].RSI <= 55
    /\ df[k + 1].OBV > df[k].OBV

RiskPerShareAt(k) ==
    LET price == df[k + 1].Close
        low == RecentLow(k)
    IN  IF low < price THEN price - low ELSE price - (price * 99) \div 100

QtyTooSmallAt(k) ==
    /\ RiskPerShareAt(k) > 0
    /\ (cash * risk_per_trade[1])
          \div (risk_per_trade[2] * RiskPerShareAt(k)) <= 0

DegenerateAt(k) == RiskPerShareAt(k) <= 0 \/ QtyTooSmallAt(k)

\* C10: a bar whose entry signal holds while flat but whose sizing is
\* degenerate (per-share risk <= 0, or quantity <= 0) changes nothing:
\* position stays 0, cash is unchanged, entry and stop prices stay unset and
\* no record is appended, in the entry half and in the rest of the bar.
C10_Step ==
    (\/ pc = "entry" /\ position = 0 /\ SignalAt(i) /\ DegenerateAt(i)
     \/ pc = "manage" /\ position = 0)
    => /\ UNCHANGED <<position, cash, entry_price, stop_price, trades>>
       /\ entry_price = None
       /\ stop_price = None

C10_DegenerateSkip == [][C10_Step]_vars

\* Two skipped signals in one run: the second bar's per-share risk is 0, the
\* third bar's quantity is 0 with a positive per-share risk.
C10_Witness ==
    /\ pc = "manage"
    /\ i = 2
    /\ position = 0
    /\ trades = <<>>
    /\ SignalAt(1)
    /\ RiskPerShareAt(1) <= 0
    /\ SignalAt(2)
    /\ QtyTooSmallAt(2)

\* The close-comparison rule, row k against row k - 1 (1-based).
ObvDelta(k) ==
    IF ohlcv[k].Close > ohlcv[k - 1].Close THEN ohlcv[k].Volume
    ELSE IF ohlcv[k].Close < ohlcv[k - 1].Close THEN -ohlcv[k].Volume
    ELSE 0

FollowsObvRule(series) ==
    /\ Len(series) >= 1
    /\ series[1] = 0
    /\ \A k \in 2..Len(series) : series[k] = series[k - 1] + ObvDelta(k)

\* C11: the OBV series of obv() and of calculate_obv() has one value per
\* bar, is 0 at the first bar and moves by +volume, -volume or 0 at each
\* later bar as the close rises, falls or ties; the two series are equal.
C11_ObvRule ==
    /\ FollowsObvRule(obv_vals)
    /\ FollowsObvRule(app_obv)
    /\ obv_ret # None =>
          Len(Val(obv_ret)) = Len(ohlcv) /\ FollowsObvRule(Val(obv_ret))
    /\ app_col # None =>
          Len(Val(app_col)) = Len(ohlcv) /\ FollowsObvRule(Val(app_col))
    /\ (obv_ret # None /\ app_col # None) => Val(obv_ret) = Val(app_col)

\* Closes 100, 105, 95 with volumes 10, 20, 15 give 0, 20, 5 in both.
C11_Witness ==
    /\ ohlcv = <<[Close |-> 100, Volume |-> 10], [Close |-> 105, Volume |-> 20],
                 [Close |-> 95, Volume |-> 15]>>
    /\ obv_ret = Some(<<0, 20, 5>>)
    /\ app_col = Some(<<0, 20, 5>>)

\* C12: every closed record has exit time >= entry time, and the entry time
\* of each record is strictly later than the exit time of the record before
\* it.
C12_TradeTimes ==
    /\ \A k \in ClosedRecords : Val(trades[k].ExitTime) >= trades[k].EntryTime
    /\ \A k \in 2..Len(trades) :
          /\ IsClosed(trades[k - 1])
          /\ trades[k].EntryTime > Val(trades[k - 1].ExitTime)

\* A trade closed on its entry bar, followed by a trade entered on the next
\* bar and closed one bar later or at the end.
C12_Witness ==
    /\ Len(trades) = 2
    /\ trades[1].ExitTime = Some(trades[1].EntryTime)
    /\ trades[2].EntryTime = trades[1].EntryTime + 1
    /\ IsClosed(trades[2])

\* C13: a closed record never changes again and is never removed; a step
\* that changes a record changes the last one, which was open.
C13_Step ==
    /\ Len(trades') >= Len(trades)
    /\ \A k \in 1..Len(trades) :
          IF IsClosed(trades[k]) THEN trades'[k] = trades[k]
          ELSE trades'[k] # trades[k] => k = Len(trades)

C13_ClosedImmutable == [][C13_Step]_vars

\* A first record was closed, a second was entered and then closed by the
\* end-of-data step, and the first is still as the exit wrote it.
C13_Witness ==
    /\ Returned
    /\ Len(trades) = 2
    /\ trades[1].ExitReason \in {Some(STOP), Some(TAKE_PROFIT)}
    /\ trades[2].ExitReason = Some(END_OF_DATA)
    /\ Val(ret).trades = trades

\* C14 (step part): a record is appended on bar i only from a flat state in
\* which EMA50 > EMA200, 40 <= RSI <= 55 and OBV is above the previous
\* bar's, and it carries that bar's label and close as entry time and price.
C14_Step ==
    Len(trades') > Len(trades) =>
        /\ pc = "entry"
        /\ position = 0
        /\ i >= 1
        /\ df[i + 1].EMA50 > df[i + 1].EMA200
        /\ 40 <= df[i + 1].RSI
        /\ df[i + 1].RSI <= 55
        /\ df[i + 1].OBV > df[i].OBV
        /\ Len(trades') = Len(trades) + 1
        /\ trades'[Len(trades')].EntryTime = df[i + 1].Date
        /\ trades'[Len(trades')].EntryPrice = df[i + 1].Close
        /\ entry_price' = Some(df[i + 1].Close)
        /\ position' > 0

\* C14 (state part): no record was entered on the first bar of the frame.
C14_State ==
    \A k \in 1..Len(trades) : trades[k].EntryTime > df[1].Date

\* C14: a position is opened on a bar only when flat with all three filters
\* holding on that bar, never on the first bar, at that bar's close.
C14_EntryRule == []C14_State /\ [][C14_Step]_vars

\* Entries on a bar with RSI 40 and on a bar with RSI 55, the band's ends.
C14_Witness ==
    /\ Len(trades) = 2
    /\ RowAt(trades[1].EntryTime).RSI = 40
    /\ RowAt(trades[2].EntryTime).RSI = 55
    /\ trades[2].EntryPrice = RowAt(trades[2].EntryTime).Close

\* The lows of the up to 10 rows before row k (0-based k).
WindowLows(k) == {df[j].Low : j \in {n \in 1..k : n > k - 10}}
LowestOf(S) == CHOOSE v \in S : \A w \in S : v <= w

\* C15 (step part): an entry on bar i sets the stop to the lowest low of the
\* up to 10 bars before bar i when that low is below the entry price, else to
\* 1% below the entry price, and the quantity to
\* floor(cash x risk fraction / (entry price - stop price)).
C15_Step ==
    Len(trades') > Len(trades) =>
        LET price == df[i + 1].Close
            low == LowestOf(WindowLows(i))
            stop == IF low < price THEN low ELSE (price * 99) \div 100
            qty == (cash * risk_per_trade[1])
                      \div (risk_per_trade[2] * (price - stop))
            r == trades'[Len(trades')]
        IN  /\ price > stop
            /\ r.StopPrice = stop
            /\ stop_price' = Some(stop)
            /\ r.Qty = qty
            /\ position' = qty
            /\ cash' = cash - qty * price

\* C15 (state part): every record has stop < entry < take-profit and a
\* quantity of at least 1, and so has the open position.
C15_State ==
    /\ \A k \in 1..Len(trades) :
          /\ trades[k].StopPrice < trades[k].EntryPrice
          /\ trades[k].EntryPrice <
                trades[k].EntryPrice
                   + 2 * (trades[k].EntryPrice - trades[k].StopPrice)
          /\ trades[k].Qty >= 1
    /\ (InBacktest /\ position > 0) =>
          /\ Val(stop_price) < Val(entry_price)
          /\ position = trades[Len(trades)].Qty

C15_StopAndSize == []C15_State /\ [][C15_Step]_vars

AllLowsBefore(t) == {df[j].Low : j \in {n \in 1..Len(df) : df[n].Date < t}}

\* The trade entered at 100 with stop 95 and quantity 200 on the eleventh
\* row, then a trade on the twelfth row whose stop is the low of its window,
\* above the low of the first row, which the window has left behind.
C15_Witness ==
    /\ Len(trades) = 2
    /\ trades[1].EntryTime = 11
    /\ trades[1].EntryPrice = 100
    /\ trades[1].StopPrice = 95
    /\ trades[1].Qty = 200
    /\ trades[2].EntryTime = 12
    /\ trades[2].StopPrice > LowestOf(AllLowsBefore(12))

WellFormed(row) == row.Low <= row.Close /\ row.Close <= row.High

\* Cash before the entry of record k: the initial capital plus the P&L of
\* the records before it.
CashBefore(k) ==
    initial_capital
       + SumOver([j \in 1..Len(trades) |-> Val(trades[j].PnL)], 1..(k - 1))

\* C16: a trade closed on a bar with low <= close <= high exits at a price
\* within [stop price, take-profit price], so its P&L lies between
\* -(entry - stop) x qty and 2 x (entry - stop) x qty, and its loss is at
\* most the risk budget of its entry, cash before the entry x risk fraction.
C16_RiskBound ==
    \A k \in ClosedRecords :
        WellFormed(RowAt(Val(trades[k].ExitTime))) =>
            LET r == trades[k]
                risk == r.EntryPrice - r.StopPrice
            IN  /\ Val(r.ExitPrice) >= r.StopPrice
                /\ Val(r.ExitPrice) <= r.EntryPrice + 2 * risk
                /\ Val(r.PnL) >= -(risk * r.Qty)
                /\ Val(r.PnL) <= 2 * risk * r.Qty
                /\ (-Val(r.PnL)) * risk_per_trade[2]
                      <= CashBefore(k) * risk_per_trade[1]

\* A trade sold at a close strictly between its stop and its entry price,
\* at a loss, its quantity having been rounded down by the floor.
C16_Witness ==
    \E k \in ClosedRecords :
        /\ trades[k].ExitReason \in {Some(TREND_FLIP), Some(END_OF_DATA)}
        /\ WellFormed(RowAt(Val(trades[k].ExitTime)))
        /\ Val(trades[k].ExitPrice) > trades[k].StopPrice
        /\ Val(trades[k].ExitPrice) < trades[k].EntryPrice
        /\ Val(trades[k].PnL) < 0
        /\ trades[k].Qty * (trades[k].EntryPrice - trades[k].StopPrice)
              * risk_per_trade[2] < CashBefore(k) * risk_per_trade[1]

====
